---- MODULE Spec2Model ----
(***************************************************************************)
(* Document lifecycle of the Truuth portal API: the upload, status and     *)
(* result handlers of routes/documents.ts over the Prisma document table,  *)
(* and the three external calls of lib/truuth (classify, submit, poll).    *)
(* Every await of a handler is a step of its own, so that requests can be  *)
(* run one at a time (Spec) or interleaved (SpecConc).                     *)
(***************************************************************************)
EXTENDS Integers, Sequences, FiniteSets, TLC

VARIABLES documents, req, started, issued, client

vars == <<documents, req, started, issued, client>>

(***************************************************************************)
(* Bounds of the model.                                                    *)
(***************************************************************************)
MaxReqs == 3

Reqs == {1, 2}

Owners == {"u1", "u2"}

(***************************************************************************)
(* Nullable values: null is the empty sequence, a value v is <<v>>.        *)
(***************************************************************************)
None == <<>>

Some(v) == <<v>>

Get(o) == o[1]

(***************************************************************************)
(* Request inputs.                                                         *)
(***************************************************************************)
DocumentTypes == {"PASSPORT", "DRIVERS_LICENCE", "RESUME"}

RequestedTypes == DocumentTypes \cup {"SELFIE"}

\* who uploads what: the first owner every category, the second owner (there to
\* own documents the first one must not reach) a resume only
Uploaders == ({"u1"} \X RequestedTypes) \cup ({"u2"} \X {"RESUME"})

ImageMimes == {"image/jpeg", "image/png", "image/jpg"}

IdMaxSize == 5 * 1024 * 1024

Files ==
  { [originalname |-> "id.jpg", mimetype |-> "image/jpeg", size |-> 1024 * 1024],
    [originalname |-> "id.jpg", mimetype |-> "image/jpeg", size |-> 6 * 1024 * 1024],
    [originalname |-> "cv.pdf", mimetype |-> "application/pdf", size |-> 1024 * 1024] }

(***************************************************************************)
(* Results of the classifier: each of country and documentType is absent   *)
(* or a {code, name} pair.                                                 *)
(***************************************************************************)
Countries ==
  { [code |-> "PHL", name |-> "Philippines"],
    [code |-> "AUS", name |-> "Australia"] }

ClassifiedTypes ==
  { [code |-> "PASSPORT", name |-> "Passport"],
    [code |-> "DRIVERS_LICENCE", name |-> "Driver's Licence"] }

Classified(country, documentType) == [country |-> country, documentType |-> documentType]

Philippines == Some([code |-> "PHL", name |-> "Philippines"])

Passport == Some([code |-> "PASSPORT", name |-> "Passport"])

\* every (country, type) pair the classifier knows, and results with a field
\* left out
ClassificationResult ==
  [ country : {Some(c) : c \in Countries},
    documentType : {Some(t) : t \in ClassifiedTypes} ]
  \cup { Classified(None, None), Classified(Philippines, None),
         Classified(None, Passport) }

isValidPassportTypeOnly(result) ==
  /\ result.documentType # None
  /\ Get(result.documentType).code = "PASSPORT"

isValidPhilippinesPassport(result) ==
  /\ result.country # None
  /\ Get(result.country).code = "PHL"
  /\ result.documentType # None
  /\ Get(result.documentType).code = "PASSPORT"

isValidPhilippinesDriversLicence(result) ==
  /\ result.country # None
  /\ Get(result.country).code = "PHL"
  /\ result.documentType # None
  /\ Get(result.documentType).code = "DRIVERS_LICENCE"

isValid(docType, classification) ==
  IF docType = "PASSPORT" THEN isValidPhilippinesPassport(classification)
  ELSE IF docType = "DRIVERS_LICENCE" THEN isValidPhilippinesDriversLicence(classification)
  ELSE FALSE

expectedType(docType) ==
  IF docType = "PASSPORT" THEN "Philippines Passport"
  ELSE IF docType = "DRIVERS_LICENCE" THEN "Philippines Driver's Licence"
  ELSE ""

getDocumentDescriptionByCode(classification) ==
  LET country == IF classification.country # None
                 THEN Get(classification.country).code ELSE "Unknown Country"
      docType == IF classification.documentType # None
                 THEN Get(classification.documentType).code ELSE "Unknown Document"
  IN  country \o " " \o docType

getDocumentDescription(classification) ==
  LET country == IF classification.country # None
                 THEN Get(classification.country).name ELSE "Unknown Country"
      docType == IF classification.documentType # None
                 THEN Get(classification.documentType).name ELSE "Unknown Document"
  IN  country \o " " \o docType

(***************************************************************************)
(* Messages.                                                               *)
(***************************************************************************)
MismatchMessage(detectedType, expected) ==
  "The uploaded document appears to be a " \o detectedType
    \o ". Please upload a valid " \o expected \o "."

UnableToClassifyMessage ==
  "Unable to classify the document. Please ensure the image is clear and try again."

SubmitFailedMessage ==
  "Failed to submit document for verification. Please try again."

SkippedPayload ==
  [documentVerifyId |-> None, status |-> "SKIPPED",
   message |-> "Resume verification is not required"]

(***************************************************************************)
(* The document table.  A row's id is its position in the sequence: rows   *)
(* are never deleted, so a created row gets a fresh id.                    *)
(***************************************************************************)
DocIds == 1..Len(documents)

findUnique(userId, docType) ==
  LET hits == {i \in DocIds : /\ documents[i].userId = userId
                              /\ documents[i].documentType = docType}
  IN  IF hits = {} THEN None ELSE Some(documents[CHOOSE i \in hits : TRUE])

findFirstAnyOwner(documentId, userId) ==
  IF documentId \in DocIds THEN Some(documents[documentId]) ELSE None

findFirst(documentId, userId) ==
  IF documentId \in DocIds /\ documents[documentId].userId = userId
  THEN Some(documents[documentId]) ELSE None

Merge(row, data) ==
  [f \in DOMAIN row |-> IF f \in DOMAIN data THEN data[f] ELSE row[f]]

update(docs, id, data) == [docs EXCEPT ![id] = Merge(docs[id], data)]

createRow(docs, data) ==
  Append(docs,
    [id |-> Len(docs) + 1,
     userId |-> data.userId,
     documentType |-> data.documentType,
     fileName |-> data.fileName,
     mimeType |-> data.mimeType,
     status |-> data.status,
     documentVerifyId |-> None,
     verificationResult |-> None,
     classificationResult |-> None,
     errorMessage |-> None])

upsertTarget(docs, userId, docType) ==
  {i \in 1..Len(docs) : docs[i].userId = userId /\ docs[i].documentType = docType}

upsertAlwaysCreates(docs, userId, docType, updateData, createData) ==
  [docs |-> createRow(docs, createData), id |-> Len(docs) + 1]

\* the table after the upsert, and the id of the row it returns
upsert(docs, userId, docType, updateData, createData) ==
  IF upsertTarget(docs, userId, docType) # {}
  THEN LET id == CHOOSE i \in upsertTarget(docs, userId, docType) : TRUE
       IN  [docs |-> update(docs, id, updateData), id |-> id]
  ELSE [docs |-> createRow(docs, createData), id |-> Len(docs) + 1]

(***************************************************************************)
(* A request in flight: the handler's locals, its position, the external   *)
(* calls and store writes it has made, and the response it has sent.       *)
(***************************************************************************)
NoCalls == [classify |-> 0, submit |-> 0, poll |-> 0, write |-> 0]

IdleReq ==
  [kind |-> "none", pc |-> "idle", userId |-> "", docType |-> "", file |-> None,
   documentId |-> 0, document |-> None, classification |-> None,
   submitArgs |-> None, result |-> None, res |-> None, calls |-> NoCalls,
   pre |-> <<>>, overlap |-> {}]

\* the requests that have arrived and not yet answered
InFlight == {q \in Reqs : req[q].pc \notin {"idle", "done"}}

\* what is recorded of the moment a request arrives: the table it finds and
\* the requests in flight; NoSnapshot where no property looks back at it
Snapshot == [pre |-> documents, overlap |-> InFlight]

NoSnapshot == [pre |-> <<>>, overlap |-> {}]

Called(r, what) == [req[r].calls EXCEPT ![what] = @ + 1]

Wrote(r) == Called(r, "write")

Respond(code, error, body) == Some([code |-> code, error |-> error, body |-> body])

NoBody == [empty |-> TRUE]

\* the request has been answered
Done(r, kind) == req[r].kind = kind /\ req[r].pc = "done"

Response(r) == Get(req[r].res)

(***************************************************************************)
(* The dashboard page of one signed-in user (LoginPage.tsx): the React     *)
(* state `documents`, the live intervals with the processingDocs each      *)
(* closed over, the fetchDocuments calls whose request has not reached the *)
(* server yet, and the runs of the interval callback that are in progress. *)
(* Of a run the record also keeps what it did: whether the list it         *)
(* closed over was the current one when it began (current), the ids it     *)
(* asked for (asked), the statuses it was given, "" for a failed request   *)
(* (answers), and, once the loop is over and its locals are gone, whether  *)
(* a status it was given differed (changed) and whether it called          *)
(* fetchDocuments (refreshed).                                             *)
(***************************************************************************)
IdleTick ==
  [pc |-> "idle", processingDocs |-> <<>>, i |-> 1, hasUpdates |-> FALSE,
   current |-> FALSE, asked |-> <<>>, answers |-> <<>>, changed |-> FALSE,
   refreshed |-> FALSE]

\* the page has mounted: the list is empty and the first fetchDocuments is on its way
MountedClient ==
  [documents |-> <<>>, intervals |-> <<>>, fetches |-> 1, events |-> 0,
   tick |-> <<IdleTick, IdleTick>>]

Init ==
  /\ documents = <<>>
  /\ req = [r \in Reqs |-> IdleReq]
  /\ started = 0
  /\ issued = 0
  /\ client = MountedClient

(***************************************************************************)
(* POST /upload                                                            *)
(***************************************************************************)
IsIdDocumentAny(docType) == TRUE

IsIdDocument(docType) == docType = "PASSPORT" \/ docType = "DRIVERS_LICENCE"

ValidationErrorAnySize(documentType, file) ==
  IF file = None THEN "Please select a file to upload"
  ELSE IF documentType \notin DocumentTypes THEN "Invalid document type"
  ELSE IF IsIdDocument(documentType) /\ Get(file).mimetype \notin ImageMimes
    THEN "Passport and Driver's Licence must be uploaded as JPEG or PNG images."
  ELSE ""

ValidationError(documentType, file) ==
  IF file = None THEN "Please select a file to upload"
  ELSE IF documentType \notin DocumentTypes THEN "Invalid document type"
  ELSE IF IsIdDocument(documentType) /\ Get(file).mimetype \notin ImageMimes
    THEN "Passport and Driver's Licence must be uploaded as JPEG or PNG images."
  ELSE IF IsIdDocument(documentType) /\ Get(file).size > IdMaxSize
    THEN "Image file is too large. Please upload an image smaller than 5MB."
  ELSE ""

ReceiveUpload(r, userId, documentType, file, arrival) ==
  /\ req[r].pc = "idle"
  /\ LET error == ValidationError(documentType, file)
         begun == [IdleReq EXCEPT !.overlap = arrival.overlap, !.kind = "upload",
                     !.userId = userId, !.docType = documentType, !.file = file,
                     !.pre = arrival.pre]
     IN  req' = [req EXCEPT ![r] =
           IF error # ""
           THEN [begun EXCEPT !.pc = "done", !.res = Respond(400, error, NoBody)]
           ELSE [begun EXCEPT !.pc = "findExisting"]]
  /\ UNCHANGED <<documents, issued>>

StartUpload(r, userId, documentType, file) ==
  /\ started < MaxReqs
  /\ started' = started + 1
  /\ ReceiveUpload(r, userId, documentType, file, Snapshot)
  /\ UNCHANGED client

AlreadyVerifiedNever(existingDoc) == FALSE

AlreadyVerified(existingDoc) ==
  existingDoc # None /\ Get(existingDoc).status = "DONE"

AlreadyVerifiedError ==
  "This document type has already been verified. Please contact support if you need to re-submit."

UploadFindExisting(r) ==
  /\ req[r].pc = "findExisting"
  /\ LET existingDoc == findUnique(req[r].userId, req[r].docType)
     IN  req' = [req EXCEPT ![r] =
           IF AlreadyVerified(existingDoc)
           THEN [@ EXCEPT !.pc = "done", !.res = Respond(409, AlreadyVerifiedError, NoBody)]
           ELSE [@ EXCEPT !.pc = "upsert"]]
  /\ UNCHANGED <<client, documents, started, issued>>

IdUpdateDataKeepsError(file) ==
  [fileName |-> file.originalname, mimeType |-> file.mimetype,
   status |-> "CLASSIFYING", documentVerifyId |-> None,
   verificationResult |-> None]

IdUpdateDataSetsType(file) ==
  [fileName |-> file.originalname, mimeType |-> file.mimetype,
   status |-> "CLASSIFYING", errorMessage |-> None, documentVerifyId |-> None,
   verificationResult |-> None, classificationResult |-> None,
   documentType |-> "PASSPORT"]

IdUpdateData(file) ==
  [fileName |-> file.originalname, mimeType |-> file.mimetype,
   status |-> "CLASSIFYING", errorMessage |-> None, documentVerifyId |-> None,
   verificationResult |-> None, classificationResult |-> None]

ResumeUpdateData(file) ==
  [fileName |-> file.originalname, mimeType |-> file.mimetype,
   status |-> "SUBMITTING", errorMessage |-> None, documentVerifyId |-> None,
   verificationResult |-> None]

CreateDataPending(userId, docType, file, status) ==
  [userId |-> userId, documentType |-> docType, fileName |-> file.originalname,
   mimeType |-> file.mimetype, status |-> "PENDING"]

CreateData(userId, docType, file, status) ==
  [userId |-> userId, documentType |-> docType, fileName |-> file.originalname,
   mimeType |-> file.mimetype, status |-> status]

UploadUpsert(r) ==
  /\ req[r].pc = "upsert"
  /\ LET userId == req[r].userId
         docType == req[r].docType
         file == Get(req[r].file)
         document == IF IsIdDocument(docType)
                     THEN upsert(documents, userId, docType, IdUpdateData(file),
                                 CreateData(userId, docType, file, "CLASSIFYING"))
                     ELSE upsert(documents, userId, docType, ResumeUpdateData(file),
                                 CreateData(userId, docType, file, "SUBMITTING"))
     IN  /\ documents' = document.docs
         /\ req' = [req EXCEPT ![r] =
              [@ EXCEPT !.documentId = document.id,
                        !.calls = Wrote(r),
                        !.pc = IF IsIdDocument(docType) THEN "classify"
                               ELSE "markSubmitting"]]
  /\ UNCHANGED <<client, started, issued>>

\* classifyDocument returns a classification
UploadClassifyOk(r, classification) ==
  /\ req[r].pc = "classify"
  /\ req' = [req EXCEPT ![r] =
       [@ EXCEPT !.classification = Some(classification),
                 !.calls = Called(r, "classify"),
                 !.pc = "storeClassification"]]
  /\ UNCHANGED <<client, documents, started, issued>>

\* classifyDocument throws
UploadClassifyFail(r) ==
  /\ req[r].pc = "classify"
  /\ req' = [req EXCEPT ![r] =
       [@ EXCEPT !.calls = Called(r, "classify"), !.pc = "classifyCatch"]]
  /\ UNCHANGED <<client, documents, started, issued>>

UploadStoreClassification(r) ==
  /\ req[r].pc = "storeClassification"
  /\ documents' = update(documents, req[r].documentId,
                         [classificationResult |-> req[r].classification])
  /\ req' = [req EXCEPT ![r] =
       [@ EXCEPT !.calls = Wrote(r),
                 !.pc = IF isValid(req[r].docType, Get(req[r].classification))
                        THEN "markSubmitting" ELSE "ruleFailed"]]
  /\ UNCHANGED <<client, started, issued>>

RuleFailedDataDropsPayload(docType, classification) ==
  [status |-> "CLASSIFICATION_FAILED",
   errorMessage |-> Some(MismatchMessage(getDocumentDescription(classification),
                                         expectedType(docType))),
   classificationResult |-> None]

RuleFailedData(docType, classification) ==
  [status |-> "CLASSIFICATION_FAILED",
   errorMessage |-> Some(MismatchMessage(getDocumentDescription(classification),
                                         expectedType(docType)))]

RuleFailedError(docType, classification) ==
  "Invalid document type. Expected " \o expectedType(docType) \o " but detected "
    \o getDocumentDescription(classification) \o ". Please upload the correct document."

UploadRuleFailed(r) ==
  /\ req[r].pc = "ruleFailed"
  /\ LET classification == Get(req[r].classification)
     IN  /\ documents' = update(documents, req[r].documentId,
                                RuleFailedData(req[r].docType, classification))
         /\ req' = [req EXCEPT ![r] =
              [@ EXCEPT !.calls = Wrote(r), !.pc = "done",
                        !.res = Respond(400, RuleFailedError(req[r].docType, classification),
                                        [classification |-> classification])]]
  /\ UNCHANGED <<client, started, issued>>

(***************************************************************************)
(* submitDocumentForVerification, called from the upload handler           *)
(***************************************************************************)
externalRefIdFixed(documentId) == "doc-"

\* the reference passed to submitForVerification: `doc-${documentId}`
externalRefId(documentId) == "doc-" \o ToString(documentId)

SubmitArgs(docType, classification, documentId) ==
  IF IsIdDocument(docType)
  THEN [countryCode |-> IF Get(classification).country # None
                        THEN Get(Get(classification).country).code ELSE "PHL",
        documentType |-> IF Get(classification).documentType # None
                         THEN Get(Get(classification).documentType).code ELSE docType,
        externalRefId |-> externalRefId(documentId)]
  ELSE [countryCode |-> "PHL", documentType |-> "OTHER",
        externalRefId |-> externalRefId(documentId)]

SubmitMarkSubmitting(r) ==
  /\ req[r].pc = "markSubmitting"
  /\ documents' = update(documents, req[r].documentId, [status |-> "SUBMITTING"])
  /\ req' = [req EXCEPT ![r] = [@ EXCEPT !.calls = Wrote(r), !.pc = "submit"]]
  /\ UNCHANGED <<client, started, issued>>

\* submitForVerification returns a fresh documentVerifyId
SubmitOk(r) ==
  /\ req[r].pc = "submit"
  /\ issued' = issued + 1
  /\ req' = [req EXCEPT ![r] =
       [@ EXCEPT !.submitArgs = Some(SubmitArgs(req[r].docType, req[r].classification,
                                                req[r].documentId)),
                 !.result = Some([documentVerifyId |-> Some(issued + 1),
                                  status |-> "PROCESSING"]),
                 !.calls = Called(r, "submit"),
                 !.pc = "markProcessing"]]
  /\ UNCHANGED <<client, documents, started>>

\* submitForVerification throws
SubmitFail(r) ==
  /\ req[r].pc = "submit"
  /\ req' = [req EXCEPT ![r] =
       [@ EXCEPT !.submitArgs = Some(SubmitArgs(req[r].docType, req[r].classification,
                                                req[r].documentId)),
                 !.calls = Called(r, "submit"),
                 !.pc = "submitCatch"]]
  /\ UNCHANGED <<client, documents, started, issued>>

SubmitMarkProcessing(r) ==
  /\ req[r].pc = "markProcessing"
  /\ documents' = update(documents, req[r].documentId,
                         [status |-> "PROCESSING",
                          documentVerifyId |-> Get(req[r].result).documentVerifyId])
  /\ req' = [req EXCEPT ![r] = [@ EXCEPT !.calls = Wrote(r), !.pc = "readBack"]]
  /\ UNCHANGED <<client, started, issued>>

SubmitFailedData ==
  [status |-> "FAILED", errorMessage |-> Some(SubmitFailedMessage)]

\* where the error rethrown by submitDocumentForVerification is caught
SubmitErrorHandler(docType) ==
  IF IsIdDocument(docType) THEN "classifyCatch" ELSE "resumeCatch"

SubmitCatch(r) ==
  /\ req[r].pc = "submitCatch"
  /\ documents' = update(documents, req[r].documentId, SubmitFailedData)
  /\ req' = [req EXCEPT ![r] =
       [@ EXCEPT !.calls = Wrote(r), !.pc = SubmitErrorHandler(req[r].docType)]]
  /\ UNCHANGED <<client, started, issued>>

(***************************************************************************)
(* POST /upload: the two catch blocks and the success response             *)
(***************************************************************************)
ClassifyCatchDataFailed ==
  [status |-> "FAILED", errorMessage |-> Some(UnableToClassifyMessage)]

ClassifyCatchData ==
  [status |-> "CLASSIFICATION_FAILED", errorMessage |-> Some(UnableToClassifyMessage)]

ClassifyCatchError ==
  "We couldn't verify the document type. Please ensure the image is clear and shows the full document."

UploadClassifyCatch(r) ==
  /\ req[r].pc = "classifyCatch"
  /\ documents' = update(documents, req[r].documentId, ClassifyCatchData)
  /\ req' = [req EXCEPT ![r] =
       [@ EXCEPT !.calls = Wrote(r), !.pc = "done",
                 !.res = Respond(400, ClassifyCatchError, NoBody)]]
  /\ UNCHANGED <<client, started, issued>>

ResumeCatchDataKeepsStatus == [verificationResult |-> Some(SkippedPayload)]

ResumeCatchData ==
  [status |-> "DONE", verificationResult |-> Some(SkippedPayload)]

UploadResumeCatch(r) ==
  /\ req[r].pc = "resumeCatch"
  /\ documents' = update(documents, req[r].documentId, ResumeCatchData)
  /\ req' = [req EXCEPT ![r] = [@ EXCEPT !.calls = Wrote(r), !.pc = "readBackSkipped"]]
  /\ UNCHANGED <<client, started, issued>>

UploadSummary(updatedDoc) ==
  [id |-> updatedDoc.id, documentType |-> updatedDoc.documentType,
   fileName |-> updatedDoc.fileName, status |-> updatedDoc.status,
   documentVerifyId |-> updatedDoc.documentVerifyId]

UploadReadBack(r) ==
  /\ req[r].pc = "readBack"
  /\ req' = [req EXCEPT ![r] =
       [@ EXCEPT !.pc = "done",
                 !.res = Respond(200, "", [document |->
                           UploadSummary(documents[req[r].documentId])])]]
  /\ UNCHANGED <<client, documents, started, issued>>

SkippedSummary(updatedDoc) ==
  [id |-> updatedDoc.id, documentType |-> updatedDoc.documentType,
   fileName |-> updatedDoc.fileName, status |-> updatedDoc.status]

UploadReadBackSkipped(r) ==
  /\ req[r].pc = "readBackSkipped"
  /\ req' = [req EXCEPT ![r] =
       [@ EXCEPT !.pc = "done",
                 !.res = Respond(200, "", [document |->
                           SkippedSummary(documents[req[r].documentId])])]]
  /\ UNCHANGED <<client, documents, started, issued>>

UploadInputs == Uploaders \X ({None} \cup {Some(f) : f \in Files})

\* a request may name any document id, also one that does not exist
ReadInputs == Owners \X (1..(MaxReqs + 1))

\* the ids past the first one that does not exist all behave like it
Addressable(documentId) == documentId <= Len(documents) + 1

(***************************************************************************)
(* GET /:documentId/status                                                 *)
(***************************************************************************)
ReceiveStatus(r, userId, documentId, arrival) ==
  /\ req[r].pc = "idle"
  /\ req' = [req EXCEPT ![r] =
       [IdleReq EXCEPT !.overlap = arrival.overlap, !.kind = "status", !.userId = userId,
                       !.documentId = documentId, !.pre = arrival.pre,
                       !.pc = "statusFind"]]
  /\ UNCHANGED <<documents, issued>>

StartStatus(r, userId, documentId) ==
  /\ started < MaxReqs
  /\ Addressable(documentId)
  /\ started' = started + 1
  /\ ReceiveStatus(r, userId, documentId, Snapshot)
  /\ UNCHANGED client

NotFoundError == "Document not found"

ShouldPollAnyStatus(document) == document.documentVerifyId # None

ShouldPollNever(document) == FALSE

ShouldPoll(document) ==
  document.status = "PROCESSING" /\ document.documentVerifyId # None

StatusBodyResultWhenEnded(document) ==
  [id |-> document.id, status |-> document.status,
   hasResult |-> document.status \in {"DONE", "FAILED", "CLASSIFICATION_FAILED"}]

StatusBody(document) ==
  [id |-> document.id, status |-> document.status,
   hasResult |-> (document.status = "DONE" \/ document.status = "FAILED")]

StatusFind(r) ==
  /\ req[r].pc = "statusFind"
  /\ LET document == findFirst(req[r].documentId, req[r].userId)
     IN  req' = [req EXCEPT ![r] =
           IF document = None
           THEN [@ EXCEPT !.pc = "done", !.res = Respond(404, NotFoundError, NoBody)]
           ELSE IF ShouldPoll(Get(document))
           THEN [@ EXCEPT !.document = document, !.pc = "poll"]
           ELSE [@ EXCEPT !.document = document, !.pc = "done",
                          !.res = Respond(200, "", StatusBody(Get(document)))]]
  /\ UNCHANGED <<client, documents, started, issued>>

PollStatuses == {"PROCESSING", "DONE", "FAILED"}

IsFinalAlways(result) == TRUE

IsFinalDoneOnly(result) == result.status = "DONE"

IsFinal(result) == result.status = "DONE" \/ result.status = "FAILED"

\* the response of the fall-through after a poll that wrote nothing
StaleBody(document) == StatusBody(document)

\* getVerificationResult returns the external status
StatusPollOk(r, status) ==
  /\ req[r].pc = "poll"
  /\ LET document == Get(req[r].document)
         result == [documentVerifyId |-> document.documentVerifyId, status |-> status]
     IN  req' = [req EXCEPT ![r] =
           IF IsFinal(result)
           THEN [@ EXCEPT !.result = Some(result), !.calls = Called(r, "poll"),
                          !.pc = "pollWrite"]
           ELSE [@ EXCEPT !.result = Some(result), !.calls = Called(r, "poll"),
                          !.pc = "done",
                          !.res = Respond(200, "", StaleBody(document))]]
  /\ UNCHANGED <<client, documents, started, issued>>

PollErrorResponseFails(document) == Respond(500, "Failed to get document status", NoBody)

\* getVerificationResult throws
PollErrorResponse(document) == Respond(200, "", StaleBody(document))

StatusPollFail(r) ==
  /\ req[r].pc = "poll"
  /\ req' = [req EXCEPT ![r] =
       [@ EXCEPT !.calls = Called(r, "poll"), !.pc = "done",
                 !.res = PollErrorResponse(Get(req[r].document))]]
  /\ UNCHANGED <<client, documents, started, issued>>

PollWriteDataDropsPayload(result) == [status |-> result.status]

PollWriteDataAlwaysDone(result) ==
  [status |-> "DONE", verificationResult |-> Some(result)]

PollWriteData(result) ==
  [status |-> result.status, verificationResult |-> Some(result)]

StatusPollWrite(r) ==
  /\ req[r].pc = "pollWrite"
  /\ LET document == Get(req[r].document)
         result == Get(req[r].result)
     IN  /\ documents' = update(documents, document.id, PollWriteData(result))
         /\ req' = [req EXCEPT ![r] =
              [@ EXCEPT !.calls = Wrote(r), !.pc = "done",
                        !.res = Respond(200, "", [id |-> document.id,
                                                  status |-> result.status,
                                                  hasResult |-> TRUE])]]
  /\ UNCHANGED <<client, started, issued>>

(***************************************************************************)
(* GET /:documentId/result                                                 *)
(***************************************************************************)
StartResult(r, userId, documentId) ==
  /\ req[r].pc = "idle"
  /\ started < MaxReqs
  /\ Addressable(documentId)
  /\ started' = started + 1
  /\ req' = [req EXCEPT ![r] =
       [IdleReq EXCEPT !.overlap = InFlight, !.kind = "result", !.userId = userId,
                       !.documentId = documentId, !.pre = documents,
                       !.pc = "resultFind"]]
  /\ UNCHANGED <<client, documents, issued>>

ResultSelect(row) ==
  [id |-> row.id, documentType |-> row.documentType, fileName |-> row.fileName,
   status |-> row.status, verificationResult |-> row.verificationResult,
   classificationResult |-> row.classificationResult]

ResultReadyAlways(document) == TRUE

ResultReady(document) == document.status = "DONE" \/ document.status = "FAILED"

InProgressError == "Verification is still in progress"

ResultFind(r) ==
  /\ req[r].pc = "resultFind"
  /\ LET found == findFirst(req[r].documentId, req[r].userId)
     IN  req' = [req EXCEPT ![r] =
           IF found = None
           THEN [@ EXCEPT !.pc = "done", !.res = Respond(404, NotFoundError, NoBody)]
           ELSE IF ~ResultReady(ResultSelect(Get(found)))
           THEN [@ EXCEPT !.document = Some(ResultSelect(Get(found))), !.pc = "done",
                          !.res = Respond(400, InProgressError, NoBody)]
           ELSE [@ EXCEPT !.document = Some(ResultSelect(Get(found))), !.pc = "done",
                          !.res = Respond(200, "", [document |-> ResultSelect(Get(found))])]]
  /\ UNCHANGED <<client, documents, started, issued>>

(***************************************************************************)
(* GET /                                                                   *)
(***************************************************************************)
ReceiveList(r, userId, arrival) ==
  /\ req[r].pc = "idle"
  /\ req' = [req EXCEPT ![r] =
       [IdleReq EXCEPT !.overlap = arrival.overlap, !.kind = "list", !.userId = userId,
                       !.pre = arrival.pre,
                       !.pc = "listFind"]]
  /\ UNCHANGED <<documents, issued>>

StartList(r, userId) ==
  /\ started < MaxReqs
  /\ started' = started + 1
  /\ ReceiveList(r, userId, Snapshot)
  /\ UNCHANGED client

ListSelect(row) ==
  [id |-> row.id, documentType |-> row.documentType, fileName |-> row.fileName,
   status |-> row.status, documentVerifyId |-> row.documentVerifyId,
   errorMessage |-> row.errorMessage]

findManyAnyOwner(userId) == DocIds

\* the ids of the rows where: { userId }
findMany(userId) == {i \in DocIds : documents[i].userId = userId}

\* orderBy: { createdAt: 'desc' }: the row created last comes first
NewestFirst(ids) ==
  [k \in 1..Cardinality(ids) |->
     ListSelect(documents[CHOOSE i \in ids : Cardinality({j \in ids : j > i}) = k - 1])]

ListFind(r) ==
  /\ req[r].pc = "listFind"
  /\ req' = [req EXCEPT ![r] =
       [@ EXCEPT !.pc = "done",
                 !.res = Respond(200, "", [documents |->
                           NewestFirst(findMany(req[r].userId))])]]
  /\ UNCHANGED <<client, documents, started, issued>>

(***************************************************************************)
(* The response has been sent: the handler's locals are gone.              *)
(***************************************************************************)
Return(r) ==
  /\ req[r].pc = "done"
  /\ req' = [q \in Reqs |-> IF q = r THEN IdleReq
                           ELSE [req[q] EXCEPT !.overlap = @ \ {r}]]
  /\ UNCHANGED <<client, documents, started, issued>>

(***************************************************************************)
(* Specifications.  Spec runs the requests one after the other; SpecConc   *)
(* interleaves the steps of up to Cardinality(Reqs) requests.              *)
(***************************************************************************)
Start(r) ==
  \/ \E u \in UploadInputs : StartUpload(r, u[1][1], u[1][2], u[2])
  \/ \E i \in ReadInputs : StartStatus(r, i[1], i[2])
  \/ \E i \in ReadInputs : StartResult(r, i[1], i[2])
  \/ \E userId \in Owners : StartList(r, userId)

(***************************************************************************)
(* The dashboard page: fetchDocuments, the polling effect and the upload   *)
(* of a DocumentCard.  A request of the page takes a free handler slot     *)
(* when it reaches the server and gives it back when the page has the      *)
(* response.                                                               *)
(***************************************************************************)
ClientUser == "u1"

\* the uploads and timer ticks of the page, taken together
MaxClientEvents == 2

\* the files the user of the page picks
ClientUploadInputs ==
  { <<"RESUME", Some([originalname |-> "cv.pdf", mimetype |-> "application/pdf",
                      size |-> 1024 * 1024])>>,
    <<"PASSPORT", Some([originalname |-> "id.jpg", mimetype |-> "image/jpeg",
                        size |-> 1024 * 1024])>> }

\* what the classifier answers to the passport image of the page's user
ClientClassificationResult ==
  { Classified(Philippines, Passport),
    Classified(Philippines, Some([code |-> "DRIVERS_LICENCE", name |-> "Driver's Licence"])) }

\* the handler slot an upload of the page is served in, and the one its reads are
UploadSlot == 1

ReadSlot == 2

IsProcessingOnly(status) == status = "PROCESSING"

\* the filter of the polling effect
IsProcessing(status) == status \in {"PROCESSING", "CLASSIFYING", "SUBMITTING"}

RECURSIVE processingDocs(_)
processingDocs(docs) ==
  IF docs = <<>> THEN <<>>
  ELSE IF IsProcessing(Head(docs).status)
       THEN <<Head(docs)>> \o processingDocs(Tail(docs))
       ELSE processingDocs(Tail(docs))

clearIntervalNever(intervals) == intervals

\* the cleanup of the previous run of the effect clears the interval it made
clearInterval(intervals) ==
  IF intervals = <<>> THEN <<>> ELSE SubSeq(intervals, 1, Len(intervals) - 1)

\* the polling effect, run after `documents` has changed
useEffect(docs, intervals) ==
  IF processingDocs(docs) = <<>>
  THEN clearInterval(intervals)
  ELSE Append(clearInterval(intervals), processingDocs(docs))

\* the slot r is free again; nobody overlaps with its request any more
Released(r) ==
  [q \in Reqs |-> IF q = r THEN IdleReq
                  ELSE [req[q] EXCEPT !.overlap = @ \ {r}]]

\* the response is a 2xx: request() returns the body instead of throwing
Ok(r) == Get(req[r].res).code = 200

\* DocumentCard.handleFile: uploadDocument(file, documentType)
ClientUpload(documentType, file) ==
  /\ client.events < MaxClientEvents
  /\ ReceiveUpload(UploadSlot, ClientUser, documentType, file, NoSnapshot)
  /\ client' = [client EXCEPT !.events = @ + 1]
  /\ UNCHANGED started

\* the upload has been answered: onUploadSuccess is fetchDocuments
UploadSettled ==
  /\ Done(UploadSlot, "upload")
  /\ req' = Released(UploadSlot)
  /\ client' = IF Ok(UploadSlot) THEN [client EXCEPT !.fetches = @ + 1] ELSE client
  /\ UNCHANGED <<documents, started, issued>>

\* fetchDocuments: the request of getDocuments reaches the server
FetchSend ==
  /\ client.fetches > 0
  /\ ReceiveList(ReadSlot, ClientUser, NoSnapshot)
  /\ client' = [client EXCEPT !.fetches = @ - 1]
  /\ UNCHANGED started

\* fetchDocuments: getDocuments throws, the list is left as it is
FetchFail ==
  /\ client.fetches > 0
  /\ client' = [client EXCEPT !.fetches = @ - 1]
  /\ UNCHANGED <<documents, req, started, issued>>

\* fetchDocuments: setDocuments(documents), then the polling effect runs again
FetchSettled ==
  /\ Done(ReadSlot, "list")
  /\ req' = Released(ReadSlot)
  /\ client' =
       IF Ok(ReadSlot)
       THEN [client EXCEPT !.documents = Response(ReadSlot).body.documents,
                           !.intervals = useEffect(Response(ReadSlot).body.documents, @)]
       ELSE client
  /\ UNCHANGED <<documents, started, issued>>

\* the runs of the interval callback that can be in progress at once: setInterval
\* does not wait for the promise of the run before
Callbacks == {1, 2}

\* the handler slot the status requests of a run are served in
CallbackSlot(t) == IF t = 1 THEN ReadSlot ELSE UploadSlot

\* a run takes the second place only while the first is taken
Free(t) ==
  /\ client.tick[t].pc \in {"idle", "ended"}
  /\ t = 2 => client.tick[1].pc \in {"loop", "await"}

\* the run of the callback of interval k as it begins: it works on the
\* processingDocs the effect closed over
Begun(k) ==
  [IdleTick EXCEPT
     !.pc = "loop",
     !.processingDocs = client.intervals[k],
     !.current = (client.intervals[k] = processingDocs(client.documents))]

\* a live interval fires
TimerFires(k, t) ==
  /\ k \in DOMAIN client.intervals
  /\ Free(t)
  /\ client.events < MaxClientEvents
  /\ client' = [client EXCEPT !.events = @ + 1, !.tick[t] = Begun(k)]
  /\ UNCHANGED <<documents, req, started, issued>>

\* a live interval fires, every 5 seconds for as long as it is live
TimerTicks(k, t) ==
  /\ k \in DOMAIN client.intervals
  /\ Free(t)
  /\ client' = [client EXCEPT !.tick[t] = Begun(k)]
  /\ UNCHANGED <<documents, req, started, issued>>

Looping(t) ==
  /\ client.tick[t].pc = "loop"
  /\ client.tick[t].i <= Len(client.tick[t].processingDocs)

doc(t) == client.tick[t].processingDocs[client.tick[t].i]

\* getDocumentStatus(doc.id) reaches the server
TickRequest(t) ==
  /\ Looping(t)
  /\ ReceiveStatus(CallbackSlot(t), ClientUser, doc(t).id, NoSnapshot)
  /\ client' = [client EXCEPT !.tick[t].pc = "await",
                              !.tick[t].asked = Append(@, doc(t).id)]
  /\ UNCHANGED started

AfterErrorStops(i, n) == n + 1

\* the catch inside the for loop: on to the next document
AfterError(i, n) == i + 1

\* getDocumentStatus(doc.id) throws before any response
TickRequestFail(t) ==
  /\ Looping(t)
  /\ client' = [client EXCEPT
       !.tick[t].asked = Append(@, doc(t).id),
       !.tick[t].answers = Append(@, ""),
       !.tick[t].i = AfterError(@, Len(client.tick[t].processingDocs))]
  /\ UNCHANGED <<documents, req, started, issued>>

\* the status request has been answered
TickSettled(t) ==
  /\ client.tick[t].pc = "await"
  /\ Done(CallbackSlot(t), "status")
  /\ req' = Released(CallbackSlot(t))
  /\ client' =
       IF Ok(CallbackSlot(t))
       THEN [client EXCEPT
              !.tick[t].pc = "loop",
              !.tick[t].answers = Append(@, Response(CallbackSlot(t)).body.status),
              !.tick[t].hasUpdates =
                 @ \/ Response(CallbackSlot(t)).body.status # doc(t).status,
              !.tick[t].i = @ + 1]
       ELSE [client EXCEPT
              !.tick[t].pc = "loop",
              !.tick[t].answers = Append(@, ""),
              !.tick[t].i = AfterError(@, Len(client.tick[t].processingDocs))]
  /\ UNCHANGED <<documents, started, issued>>

\* after the loop: if (hasUpdates) fetchDocuments()
TickEnd(t) ==
  /\ client.tick[t].pc = "loop"
  /\ client.tick[t].i > Len(client.tick[t].processingDocs)
  /\ client' = [client EXCEPT
       !.tick[t].pc = "ended",
       !.tick[t].processingDocs = <<>>,
       !.tick[t].asked = <<>>,
       !.tick[t].answers = <<>>,
       !.tick[t].changed =
          \E k \in DOMAIN client.tick[t].answers :
            client.tick[t].answers[k] \notin {"", client.tick[t].processingDocs[k].status},
       !.tick[t].refreshed = client.tick[t].hasUpdates,
       !.fetches = IF client.tick[t].hasUpdates THEN @ + 1 ELSE @]
  /\ UNCHANGED <<documents, req, started, issued>>

Step(r) ==
  \/ UploadFindExisting(r)
  \/ UploadUpsert(r)
  \/ \E classification \in ClassificationResult : UploadClassifyOk(r, classification)
  \/ UploadClassifyFail(r)
  \/ UploadStoreClassification(r)
  \/ UploadRuleFailed(r)
  \/ SubmitMarkSubmitting(r)
  \/ SubmitOk(r)
  \/ SubmitFail(r)
  \/ SubmitMarkProcessing(r)
  \/ SubmitCatch(r)
  \/ UploadClassifyCatch(r)
  \/ UploadResumeCatch(r)
  \/ UploadReadBack(r)
  \/ UploadReadBackSkipped(r)
  \/ StatusFind(r)
  \/ \E status \in PollStatuses : StatusPollOk(r, status)
  \/ StatusPollFail(r)
  \/ StatusPollWrite(r)
  \/ ResultFind(r)
  \/ ListFind(r)
  \/ Return(r)

AllIdle == \A q \in Reqs : req[q].pc = "idle"

\* one request at a time: a request arrives when no other is in flight
SerialUpload(userId, documentType, file) ==
  AllIdle /\ StartUpload(1, userId, documentType, file)

SerialStatus(userId, documentId) ==
  AllIdle /\ StartStatus(1, userId, documentId)

SerialResult(userId, documentId) ==
  AllIdle /\ StartResult(1, userId, documentId)

SerialList(userId) ==
  AllIdle /\ StartList(1, userId)

Next ==
  \/ \E u \in UploadInputs : SerialUpload(u[1][1], u[1][2], u[2])
  \/ \E i \in ReadInputs : SerialStatus(i[1], i[2])
  \/ \E i \in ReadInputs : SerialResult(i[1], i[2])
  \/ \E userId \in Owners : SerialList(userId)
  \/ \E r \in Reqs : Step(r)

Spec == Init /\ [][Next]_vars

\* requests that overlap: a request arrives whatever the others are doing
MaxConcReqs == 2

Overlapping == started < MaxConcReqs

ConcUpload(r, userId, documentType, file) ==
  Overlapping /\ StartUpload(r, userId, documentType, file)

ConcStatus(r, userId, documentId) ==
  Overlapping /\ StartStatus(r, userId, documentId)

ConcResult(r, userId, documentId) ==
  Overlapping /\ StartResult(r, userId, documentId)

ConcList(r, userId) ==
  Overlapping /\ StartList(r, userId)

NextConc ==
  \E r \in Reqs :
    \/ \E u \in UploadInputs : ConcUpload(r, u[1][1], u[1][2], u[2])
    \/ \E i \in ReadInputs : ConcStatus(r, i[1], i[2])
    \/ \E i \in ReadInputs : ConcResult(r, i[1], i[2])
    \/ \E userId \in Owners : ConcList(r, userId)
    \/ Step(r)

SpecConc == Init /\ [][NextConc]_vars

\* the page of ClientUser against the server; the handlers' steps interleave,
\* and a run of the interval callback is over before the timer fires again
NextClient ==
  \/ \E u \in ClientUploadInputs : ClientUpload(u[1], u[2])
  \/ UploadSettled
  \/ FetchSend
  \/ FetchFail
  \/ FetchSettled
  \/ \E k \in 1..2 : TimerFires(k, 1)
  \/ TickRequest(1)
  \/ TickRequestFail(1)
  \/ TickSettled(1)
  \/ TickEnd(1)
  \/ \E r \in Reqs :
       \/ UploadFindExisting(r)
       \/ UploadUpsert(r)
       \/ \E classification \in ClientClassificationResult :
            UploadClassifyOk(r, classification)
       \/ UploadClassifyFail(r)
       \/ UploadStoreClassification(r)
       \/ UploadRuleFailed(r)
       \/ SubmitMarkSubmitting(r)
       \/ SubmitOk(r)
       \/ SubmitFail(r)
       \/ SubmitMarkProcessing(r)
       \/ SubmitCatch(r)
       \/ UploadClassifyCatch(r)
       \/ UploadResumeCatch(r)
       \/ UploadReadBack(r)
       \/ UploadReadBackSkipped(r)
       \/ StatusFind(r)
       \/ \E status \in PollStatuses : StatusPollOk(r, status)
       \/ StatusPollFail(r)
       \/ StatusPollWrite(r)
       \/ ListFind(r)

\* the table when a résumé and a passport of ClientUser are both in verification
InVerification ==
  LET cv == [originalname |-> "cv.pdf", mimetype |-> "application/pdf", size |-> 1024 * 1024]
      jpg == [originalname |-> "id.jpg", mimetype |-> "image/jpeg", size |-> 1024 * 1024]
      created == createRow(<<>>, CreateData(ClientUser, "RESUME", cv, "SUBMITTING"))
      submitted == update(created, 1,
                          [status |-> "PROCESSING", documentVerifyId |-> Some(1)])
      second == createRow(submitted, CreateData(ClientUser, "PASSPORT", jpg, "CLASSIFYING"))
      classified == update(second, 2,
                           [classificationResult |-> Some(Classified(Philippines, Passport))])
  IN  update(classified, 2, [status |-> "PROCESSING", documentVerifyId |-> Some(2)])

\* the page mounts for a user with no document yet, or with two in verification
InitClient ==
  /\ documents \in {<<>>, InVerification}
  /\ req = [r \in Reqs |-> IdleReq]
  /\ started = 0
  /\ issued = Len(documents)
  /\ client = MountedClient

SpecClient == InitClient /\ [][NextClient]_vars

\* the page left alone while its documents are in verification: the timer
\* fires whether or not the run before is over
NextTicks ==
  \/ FetchSend
  \/ FetchFail
  \/ FetchSettled
  \/ \E k \in 1..2, t \in Callbacks : TimerFires(k, t)
  \/ \E t \in Callbacks : TickRequest(t)
  \/ \E t \in Callbacks : TickRequestFail(t)
  \/ \E t \in Callbacks : TickSettled(t)
  \/ \E t \in Callbacks : TickEnd(t)
  \/ \E r \in Reqs :
       \/ StatusFind(r)
       \/ \E status \in PollStatuses : StatusPollOk(r, status)
       \/ StatusPollFail(r)
       \/ StatusPollWrite(r)
       \/ ListFind(r)

InitTicks ==
  /\ documents = InVerification
  /\ req = [r \in Reqs |-> IdleReq]
  /\ started = 0
  /\ issued = Len(documents)
  /\ client = MountedClient

SpecTicks == InitTicks /\ [][NextTicks]_vars

(***************************************************************************)
(* The page left open for as long as it takes, a run of the callback being *)
(* over before the timer fires again.  The timer keeps firing while an     *)
(* interval is live, every handler and every continuation of the page that *)
(* can run does run, an external poll call returns or throws, and of the   *)
(* requests the page keeps sending some get through.                       *)
(***************************************************************************)
\* the fetchDocuments calls whose request is still on its way
MaxFetches == 2

\* a run of the callback ends; a fetchDocuments it makes finds room on the way
TickEnds(t) == client.fetches < MaxFetches /\ TickEnd(t)

PollReturns(r) ==
  \/ \E status \in PollStatuses : StatusPollOk(r, status)
  \/ StatusPollFail(r)

\* getDocumentStatus for document d reaches the server
StatusRequested(d) == Looping(1) /\ doc(1).id = d /\ TickRequest(1)

NextPolling ==
  \/ FetchSend
  \/ FetchFail
  \/ FetchSettled
  \/ \E k \in 1..2 : TimerTicks(k, 1)
  \/ TickRequest(1)
  \/ TickRequestFail(1)
  \/ TickSettled(1)
  \/ TickEnds(1)
  \/ \E r \in Reqs :
       \/ StatusFind(r)
       \/ PollReturns(r)
       \/ StatusPollWrite(r)
       \/ ListFind(r)

FairPolling ==
  /\ WF_vars(\E k \in 1..2 : TimerTicks(k, 1))
  /\ WF_vars(TickRequest(1) \/ TickRequestFail(1))
  /\ WF_vars(TickSettled(1))
  /\ WF_vars(TickEnds(1))
  /\ WF_vars(FetchSend \/ FetchFail)
  /\ WF_vars(FetchSettled)
  /\ \A r \in Reqs :
       /\ WF_vars(StatusFind(r))
       /\ WF_vars(PollReturns(r))
       /\ WF_vars(StatusPollWrite(r))
       /\ WF_vars(ListFind(r))
  /\ SF_vars(FetchSend)
  /\ \A d \in 1..2 : SF_vars(StatusRequested(d))

SpecPolling == InitTicks /\ [][NextPolling]_vars /\ FairPolling

(***************************************************************************)
(* What a finished request says about itself.                              *)
(***************************************************************************)
PassedValidation(r) == ValidationError(req[r].docType, req[r].file) = ""

\* the rows that the request's owner had for its category when it arrived
RowsBefore(r) == upsertTarget(req[r].pre, req[r].userId, req[r].docType)

RowBefore(r) == req[r].pre[CHOOSE i \in RowsBefore(r) : TRUE]

\* the row a status or result request addressed, if its owner could see it
SawBefore(r) ==
  /\ req[r].documentId \in 1..Len(req[r].pre)
  /\ req[r].pre[req[r].documentId].userId = req[r].userId

SeenBefore(r) == req[r].pre[req[r].documentId]

Stored(r) == documents[req[r].documentId]

SubmitFailed(r) == req[r].calls.submit > 0 /\ req[r].result = None

PollFailed(r) == req[r].calls.poll > 0 /\ req[r].result = None

(***************************************************************************)
(* C1: an upload that passes input validation for an (owner, category)     *)
(* whose stored document is DONE is answered 409 Conflict, calls neither   *)
(* classify nor submit, and leaves the table exactly as it found it.       *)
(***************************************************************************)
UploadOverDone(r) ==
  /\ req[r].kind = "upload"
  /\ PassedValidation(r)
  /\ RowsBefore(r) # {}
  /\ RowBefore(r).status = "DONE"

C1_DoneUploadRejected ==
  \A r \in Reqs : UploadOverDone(r) =>
    /\ documents = req[r].pre
    /\ req[r].calls = NoCalls
    /\ req[r].pc \in {"findExisting", "done"}
    /\ req[r].pc = "done" =>
         /\ Response(r).code = 409
         /\ Response(r).error = AlreadyVerifiedError

C1_Witness == \E r \in Reqs : UploadOverDone(r) /\ req[r].pc = "done"

(***************************************************************************)
(* C2: the table never holds two rows for one (userId, documentType), and  *)
(* it holds exactly one for the pair of every finished upload that passed  *)
(* validation, a second upload for the pair included.                      *)
(***************************************************************************)
C2_OneRowPerPair ==
  /\ \A i, j \in DocIds :
       (/\ documents[i].userId = documents[j].userId
        /\ documents[i].documentType = documents[j].documentType) => i = j
  /\ \A i \in DocIds : documents[i].id = i
  /\ \A r \in Reqs : (Done(r, "upload") /\ PassedValidation(r)) =>
       Cardinality(upsertTarget(documents, req[r].userId, req[r].docType)) = 1

\* a second upload for a pair went through the upsert
C2_Witness ==
  \E r \in Reqs :
    /\ Done(r, "upload")
    /\ PassedValidation(r)
    /\ RowsBefore(r) # {}
    /\ req[r].calls.write > 0

(***************************************************************************)
(* C3: when the submit call fails during a PASSPORT or DRIVERS_LICENCE     *)
(* upload, the request ends with the document FAILED with the retry-later  *)
(* message and the caller is told of a submission failure (not of a        *)
(* classification failure).                                                *)
(***************************************************************************)
IdSubmitFailed(r) ==
  Done(r, "upload") /\ IsIdDocument(req[r].docType) /\ SubmitFailed(r)

C3_IdSubmitFailureIsFailed ==
  \A r \in Reqs : IdSubmitFailed(r) =>
    /\ Stored(r).status = "FAILED"
    /\ Stored(r).errorMessage = Some(SubmitFailedMessage)
    /\ Response(r).code >= 400
    /\ Response(r).error # ClassifyCatchError

(***************************************************************************)
(* C4: when the submit call fails during a RESUME upload, the request ends *)
(* with the document DONE, its verification payload of status SKIPPED, and *)
(* a success response that reports DONE.                                   *)
(***************************************************************************)
ResumeSubmitFailed(r) ==
  Done(r, "upload") /\ req[r].docType = "RESUME" /\ SubmitFailed(r)

C4_ResumeSubmitFailureIsSkipped ==
  \A r \in Reqs : ResumeSubmitFailed(r) =>
    /\ Stored(r).status = "DONE"
    /\ Stored(r).verificationResult # None
    /\ Get(Stored(r).verificationResult).status = "SKIPPED"
    /\ Response(r).code = 200
    /\ Response(r).error = ""
    /\ Response(r).body.document.status = "DONE"

C4_Witness == \E r \in Reqs : ResumeSubmitFailed(r)

(***************************************************************************)
(* C5: when a status request polls a PROCESSING document and the poll call *)
(* fails, the table is left as it was, the request answers 200 and the     *)
(* status it reports is the stored one, PROCESSING.                        *)
(***************************************************************************)
StatusPollFailed(r) == Done(r, "status") /\ PollFailed(r)

C5_PollFailureKeepsState ==
  \A r \in Reqs : StatusPollFailed(r) =>
    /\ SawBefore(r)
    /\ SeenBefore(r).status = "PROCESSING"
    /\ documents = req[r].pre
    /\ req[r].calls.write = 0
    /\ Response(r).code = 200
    /\ Response(r).error = ""
    /\ Response(r).body.status = "PROCESSING"
    /\ Response(r).body.status = Stored(r).status
    /\ Response(r).body.hasResult = FALSE

C5_Witness == \E r \in Reqs : StatusPollFailed(r)

(***************************************************************************)
(* C6: when a status request polls a PROCESSING document and the poll      *)
(* returns DONE or FAILED, the stored status becomes the returned one, the *)
(* returned result is stored as the verification payload, nothing else in  *)
(* the table changes, and the response reports the returned status.        *)
(***************************************************************************)
StatusPolledFinal(r) ==
  /\ Done(r, "status")
  /\ req[r].result # None
  /\ Get(req[r].result).status \in {"DONE", "FAILED"}

C6_PollFinalIsStored ==
  \A r \in Reqs : StatusPolledFinal(r) =>
    /\ SawBefore(r)
    /\ SeenBefore(r).status = "PROCESSING"
    /\ Stored(r).status = Get(req[r].result).status
    /\ Stored(r).verificationResult = req[r].result
    /\ Get(Stored(r).verificationResult).documentVerifyId = SeenBefore(r).documentVerifyId
    /\ documents = [req[r].pre EXCEPT
                      ![req[r].documentId].status = Get(req[r].result).status,
                      ![req[r].documentId].verificationResult = req[r].result]
    /\ Response(r).code = 200
    /\ Response(r).body.status = Get(req[r].result).status
    /\ Response(r).body.hasResult = TRUE

C6_Witness ==
  \E r \in Reqs : StatusPolledFinal(r) /\ Get(req[r].result).status = "FAILED"

(***************************************************************************)
(* C7: a status request for a document stored as DONE or FAILED makes no   *)
(* poll call, writes nothing and reports that same status, so a payload    *)
(* stored by a poll is not stored again by the status requests after it.   *)
(***************************************************************************)
StatusOfFinal(r) ==
  /\ req[r].kind = "status"
  /\ SawBefore(r)
  /\ SeenBefore(r).status \in {"DONE", "FAILED"}

C7_StatusOfFinalIsNoOp ==
  \A r \in Reqs : StatusOfFinal(r) =>
    /\ req[r].calls = NoCalls
    /\ documents = req[r].pre
    /\ req[r].pc \in {"statusFind", "done"}
    /\ req[r].pc = "done" =>
         /\ Response(r).code = 200
         /\ Response(r).body.status = SeenBefore(r).status
         /\ Response(r).body.hasResult = TRUE

\* a status request after the one whose poll stored the result
C7_Witness ==
  \E r \in Reqs :
    /\ StatusOfFinal(r)
    /\ req[r].pc = "done"
    /\ SeenBefore(r).documentVerifyId # None
    /\ SeenBefore(r).verificationResult # None

(***************************************************************************)
(* C8: a PASSPORT upload calls submit exactly when classify returned       *)
(* country code PHL and document type code PASSPORT, a DRIVERS_LICENCE     *)
(* upload exactly when it returned PHL and DRIVERS_LICENCE; an upload that *)
(* reached the classify call and did not submit ends with the document     *)
(* CLASSIFICATION_FAILED.                                                  *)
(***************************************************************************)
HasCode(field, code) == field # None /\ Get(field).code = code

RuleHolds(r) ==
  /\ req[r].classification # None
  /\ HasCode(Get(req[r].classification).country, "PHL")
  /\ HasCode(Get(req[r].classification).documentType, req[r].docType)

IdUpload(r) == req[r].kind = "upload" /\ IsIdDocument(req[r].docType)

C8_SubmitIffRuleHolds ==
  \A r \in Reqs : IdUpload(r) =>
    /\ req[r].calls.submit > 0 => RuleHolds(r)
    /\ (req[r].pc = "done" /\ req[r].calls.classify > 0) =>
         /\ RuleHolds(r) <=> req[r].calls.submit = 1
         /\ req[r].calls.submit = 0 => Stored(r).status = "CLASSIFICATION_FAILED"

\* a licence upload of an image classified as a Philippines passport
C8_Witness ==
  \E r \in Reqs :
    /\ IdUpload(r)
    /\ req[r].pc = "done"
    /\ req[r].docType = "DRIVERS_LICENCE"
    /\ req[r].classification = Some(Classified(Philippines, Passport))
    /\ req[r].calls.submit = 0

(***************************************************************************)
(* C9: when the classification rule fails, the stored error message names  *)
(* the detected document by the country name and the document type name of *)
(* the classification result, with 'Unknown Country' and 'Unknown          *)
(* Document' for a field the classifier left out: a PHL/PASSPORT image     *)
(* uploaded as DRIVERS_LICENCE is named 'Philippines Passport'.            *)
(***************************************************************************)
RuleFailed(r) ==
  /\ IdUpload(r)
  /\ req[r].pc = "done"
  /\ req[r].classification # None
  /\ ~RuleHolds(r)

NameOr(field, unknown) == IF field = None THEN unknown ELSE Get(field).name

Detected(r) ==
  NameOr(Get(req[r].classification).country, "Unknown Country") \o " "
    \o NameOr(Get(req[r].classification).documentType, "Unknown Document")

PassportAsLicence(r) ==
  /\ RuleFailed(r)
  /\ req[r].docType = "DRIVERS_LICENCE"
  /\ HasCode(Get(req[r].classification).country, "PHL")
  /\ HasCode(Get(req[r].classification).documentType, "PASSPORT")

C9_MessageNamesDetected ==
  \A r \in Reqs : RuleFailed(r) =>
    /\ Stored(r).status = "CLASSIFICATION_FAILED"
    /\ Stored(r).errorMessage =
         Some("The uploaded document appears to be a " \o Detected(r)
              \o ". Please upload a valid "
              \o (IF req[r].docType = "PASSPORT" THEN "Philippines Passport"
                  ELSE "Philippines Driver's Licence") \o ".")
    /\ PassportAsLicence(r) =>
         Stored(r).errorMessage =
           Some("The uploaded document appears to be a Philippines Passport. Please upload a valid Philippines Driver's Licence.")
    /\ (req[r].docType = "PASSPORT" /\ Get(req[r].classification) = Classified(None, None)) =>
         Stored(r).errorMessage =
           Some("The uploaded document appears to be a Unknown Country Unknown Document. Please upload a valid Philippines Passport.")

C9_Witness == \E r \in Reqs : PassportAsLicence(r)

(***************************************************************************)
(* C10: a result request for a PROCESSING document is answered 400 with no *)
(* payload; for a DONE document it is answered with the document and its   *)
(* verification and classification payloads; a result request never        *)
(* changes the table.                                                      *)
(***************************************************************************)
C10_ResultByState ==
  \A r \in Reqs : req[r].kind = "result" =>
    /\ documents = req[r].pre
    /\ req[r].calls = NoCalls
    /\ (req[r].pc = "done" /\ SawBefore(r) /\ SeenBefore(r).status = "PROCESSING") =>
         /\ Response(r).code = 400
         /\ Response(r).error = InProgressError
         /\ Response(r).body = NoBody
    /\ (req[r].pc = "done" /\ SawBefore(r) /\ SeenBefore(r).status = "DONE") =>
         /\ Response(r).code = 200
         /\ Response(r).body.document.id = req[r].documentId
         /\ Response(r).body.document.status = "DONE"
         /\ Response(r).body.document.verificationResult = Stored(r).verificationResult
         /\ Response(r).body.document.verificationResult # None
         /\ Response(r).body.document.classificationResult = Stored(r).classificationResult

\* the result of a passport that a poll found DONE
C10_Witness ==
  \E r \in Reqs :
    /\ Done(r, "result")
    /\ SawBefore(r)
    /\ SeenBefore(r).status = "DONE"
    /\ SeenBefore(r).classificationResult # None
    /\ Response(r).code = 200

\* a result request refused because the document is PROCESSING
C10_WitnessProcessing ==
  \E r \in Reqs :
    /\ Done(r, "result")
    /\ SawBefore(r)
    /\ SeenBefore(r).status = "PROCESSING"

(***************************************************************************)
(* C11: no request of an owner reads or changes a document of another      *)
(* owner: a status or result request for another owner's document id is    *)
(* answered 404 without a poll and without a write, a list shows only the  *)
(* requester's rows, and an upload changes or creates only the row of      *)
(* (requester, category).                                                  *)
(***************************************************************************)
Foreign(r) ==
  /\ req[r].kind \in {"status", "result"}
  /\ req[r].documentId \in 1..Len(req[r].pre)
  /\ req[r].pre[req[r].documentId].userId # req[r].userId

OthersUntouched(r) ==
  /\ Len(documents) >= Len(req[r].pre)
  /\ \A i \in 1..Len(req[r].pre) :
       req[r].pre[i].userId # req[r].userId => documents[i] = req[r].pre[i]
  /\ \A i \in (Len(req[r].pre) + 1)..Len(documents) :
       documents[i].userId = req[r].userId

OnlyOwnCategory(r) ==
  /\ \A i \in 1..Len(req[r].pre) :
       req[r].pre[i].documentType # req[r].docType => documents[i] = req[r].pre[i]
  /\ \A i \in (Len(req[r].pre) + 1)..Len(documents) :
       documents[i].documentType = req[r].docType

ListedOwn(r) ==
  LET listed == Response(r).body.documents
  IN  /\ \A k \in 1..Len(listed) : documents[listed[k].id].userId = req[r].userId
      /\ {listed[k].id : k \in 1..Len(listed)} =
           {i \in DocIds : documents[i].userId = req[r].userId}

C11_OwnersIsolated ==
  \A r \in Reqs : req[r].kind # "none" =>
    /\ OthersUntouched(r)
    /\ req[r].kind = "upload" => OnlyOwnCategory(r)
    /\ Foreign(r) =>
         /\ req[r].calls = NoCalls
         /\ documents = req[r].pre
         /\ req[r].document = None
         /\ req[r].pc = "done" => Response(r).code = 404
    /\ Done(r, "list") => ListedOwn(r)

\* a status request for a document another owner has in PROCESSING
C11_Witness ==
  \E r \in Reqs :
    /\ Foreign(r)
    /\ Done(r, "status")
    /\ req[r].pre[req[r].documentId].status = "PROCESSING"

\* a list asked while another owner has a document
C11_WitnessList ==
  \E r \in Reqs :
    /\ Done(r, "list")
    /\ Len(Response(r).body.documents) > 0
    /\ \E i \in DocIds : documents[i].userId # req[r].userId

(***************************************************************************)
(* C12: the status and result endpoints answer a document id owned by      *)
(* someone else exactly as they answer an id that does not exist, whatever *)
(* the state of that document: the same 404 body in both cases, so the     *)
(* answer does not depend on the other owner's documents.                  *)
(***************************************************************************)
NotOwn(r) == req[r].kind \in {"status", "result"} /\ ~SawBefore(r)

C12_ForeignAsMissing ==
  \A r \in Reqs : (NotOwn(r) /\ req[r].pc = "done") =>
    /\ req[r].res = Respond(404, "Document not found", [empty |-> TRUE])
    /\ req[r].calls = NoCalls
    /\ req[r].document = None

\* a result request for a document another owner has in DONE
C12_Witness ==
  \E r \in Reqs :
    /\ Foreign(r)
    /\ Done(r, "result")
    /\ req[r].pre[req[r].documentId].status = "DONE"

\* a request for an id that does not exist
C12_WitnessMissing ==
  \E r \in Reqs :
    /\ NotOwn(r)
    /\ req[r].pc = "done"
    /\ req[r].documentId > Len(req[r].pre)

(***************************************************************************)
(* C13: an upload with no file, with a category outside PASSPORT,          *)
(* DRIVERS_LICENCE and RESUME, with a file that is not an image for an ID  *)
(* category, or with an ID file over 5MB is answered 400 at once: it never *)
(* reaches the table or an external call, and the table is unchanged.      *)
(***************************************************************************)
IdCategory(r) == req[r].docType \in {"PASSPORT", "DRIVERS_LICENCE"}

BadInput(r) ==
  \/ req[r].file = None
  \/ req[r].docType \notin {"PASSPORT", "DRIVERS_LICENCE", "RESUME"}
  \/ IdCategory(r) /\ Get(req[r].file).mimetype = "application/pdf"
  \/ IdCategory(r) /\ Get(req[r].file).size > 5 * 1024 * 1024

Polled(row) ==
  /\ row.verificationResult # None
  /\ Get(row.verificationResult).status \in {"DONE", "FAILED"}

VerifyIdMatchesState(row) ==
  /\ row.status = "PROCESSING" => row.documentVerifyId # None
  /\ row.status \in {"CLASSIFYING", "SUBMITTING", "CLASSIFICATION_FAILED"} =>
       row.documentVerifyId = None
  /\ row.status \in {"DONE", "FAILED"} =>
       /\ row.documentVerifyId # None <=> Polled(row)
       /\ Polled(row) =>
            Get(row.verificationResult).documentVerifyId = row.documentVerifyId

C14_VerifyIdIffSubmitted == \A i \in DocIds : VerifyIdMatchesState(documents[i])

(***************************************************************************)
(* C15: in every interleaving, a document stored as DONE stays DONE and    *)
(* keeps its verification payload.                                         *)
(***************************************************************************)
DoneIsKept ==
  \A i \in DocIds : documents[i].status = "DONE" =>
    /\ documents'[i].status = "DONE"
    /\ documents'[i].verificationResult = documents[i].verificationResult

C15_DoneStaysDone == [][DoneIsKept]_vars

(***************************************************************************)
(* C16: two overlapping uploads for one (owner, category) do not both get  *)
(* a verification id from submit, and once both have answered, a verify id *)
(* on the row comes with the state and payloads of the upload that got it. *)
(***************************************************************************)
Overlap(p, q) == p \in req[q].overlap \/ q \in req[p].overlap

SameDocument(p, q) ==
  /\ p # q
  /\ req[p].kind = "upload" /\ req[q].kind = "upload"
  /\ req[p].userId = req[q].userId
  /\ req[p].docType = req[q].docType
  /\ Overlap(p, q)

Submitted(r) == req[r].result # None

FromOne(row, r) ==
  /\ Submitted(r)
  /\ row.documentVerifyId = Get(req[r].result).documentVerifyId
  /\ row.status = "PROCESSING"
  /\ row.classificationResult = req[r].classification
  /\ row.errorMessage = None
  /\ row.verificationResult = None

C16_OneSubmissionPerDocument ==
  \A p, q \in Reqs : SameDocument(p, q) =>
    /\ ~(Submitted(p) /\ Submitted(q))
    /\ (req[p].pc = "done" /\ req[q].pc = "done" /\ (Submitted(p) \/ Submitted(q))) =>
         (FromOne(Stored(p), p) \/ FromOne(Stored(q), q))

(***************************************************************************)
(* C17: when a status request polls a PROCESSING document and the poll     *)
(* reports PROCESSING, no field of any row changes and the response        *)
(* reports PROCESSING with hasResult false.                                *)
(***************************************************************************)
StatusPolledProcessing(r) ==
  /\ Done(r, "status")
  /\ req[r].result # None
  /\ Get(req[r].result).status = "PROCESSING"

C17_StillProcessingChangesNothing ==
  \A r \in Reqs : StatusPolledProcessing(r) =>
    /\ req[r].calls.poll = 1
    /\ req[r].calls.write = 0
    /\ documents = req[r].pre
    /\ Stored(r).status = "PROCESSING"
    /\ Response(r).code = 200
    /\ Response(r).body.id = req[r].documentId
    /\ Response(r).body.status = "PROCESSING"
    /\ Response(r).body.hasResult = FALSE

C17_Witness == \E r \in Reqs : StatusPolledProcessing(r)

(***************************************************************************)
(* C18: when the classify call fails during a PASSPORT or DRIVERS_LICENCE  *)
(* upload, the document ends CLASSIFICATION_FAILED with the generic        *)
(* could-not-classify message, submit is not called, and the request is    *)
(* answered with an error response.                                        *)
(***************************************************************************)
ClassifyFailed(r) ==
  /\ IdUpload(r)
  /\ req[r].calls.classify > 0
  /\ req[r].classification = None

C18_ClassifyFailureRecorded ==
  \A r \in Reqs : ClassifyFailed(r) =>
    /\ req[r].calls.submit = 0
    /\ req[r].pc \in {"classifyCatch", "done"}
    /\ req[r].pc = "done" =>
         /\ Stored(r).status = "CLASSIFICATION_FAILED"
         /\ Stored(r).errorMessage =
              Some("Unable to classify the document. Please ensure the image is clear and try again.")
         /\ Stored(r).documentVerifyId = None
         /\ Response(r).code = 400
         /\ Response(r).error # ""

C18_Witness == \E r \in Reqs : ClassifyFailed(r) /\ req[r].pc = "done"

(***************************************************************************)
(* C19: a RESUME upload never calls classify; a RESUME row is never        *)
(* CLASSIFYING or CLASSIFICATION_FAILED and never has a classification     *)
(* payload; the first write of a RESUME upload stores SUBMITTING.          *)
(***************************************************************************)
ResumeUpload(r) == req[r].kind = "upload" /\ req[r].docType = "RESUME"

C19_ResumeSkipsClassify ==
  /\ \A i \in DocIds : documents[i].documentType = "RESUME" =>
       /\ documents[i].status \notin {"CLASSIFYING", "CLASSIFICATION_FAILED"}
       /\ documents[i].classificationResult = None
  /\ \A r \in Reqs : ResumeUpload(r) =>
       /\ req[r].calls.classify = 0
       /\ req[r].classification = None
       /\ req[r].calls.write = 1 => Stored(r).status = "SUBMITTING"
       /\ req[r].calls.submit > 0 => Get(req[r].submitArgs).documentType = "OTHER"

\* a resume upload right after its upsert
C19_Witness ==
  \E r \in Reqs :
    /\ ResumeUpload(r)
    /\ req[r].calls.write = 1
    /\ req[r].pc = "markSubmitting"

(***************************************************************************)
(* C20: every change of a row's status follows the lifecycle graph: an     *)
(* accepted upload puts the row at the start of the pipeline (CLASSIFYING  *)
(* for an ID category, SUBMITTING for RESUME); otherwise CLASSIFYING goes  *)
(* only to CLASSIFICATION_FAILED or SUBMITTING, SUBMITTING only to         *)
(* PROCESSING, or on a failed submit to FAILED (ID) or DONE (RESUME),      *)
(* PROCESSING only to DONE or FAILED, and no other state is left.          *)
(***************************************************************************)
PipelineStart(docType) ==
  IF docType \in {"PASSPORT", "DRIVERS_LICENCE"} THEN "CLASSIFYING" ELSE "SUBMITTING"

Edge(docType, from, to) ==
  \/ from = "CLASSIFYING" /\ to \in {"CLASSIFICATION_FAILED", "SUBMITTING"}
  \/ from = "SUBMITTING" /\ to = "PROCESSING"
  \/ from = "SUBMITTING" /\ to = "FAILED" /\ docType \in {"PASSPORT", "DRIVERS_LICENCE"}
  \/ from = "SUBMITTING" /\ to = "DONE" /\ docType = "RESUME"
  \/ from = "PROCESSING" /\ to \in {"DONE", "FAILED"}

\* this step is the upsert of an accepted upload
Upserting == \E r \in Reqs : req[r].pc = "upsert" /\ req'[r].pc # "upsert"

FollowsLifecycle ==
  /\ \A i \in DocIds :
       \/ documents'[i].status = documents[i].status
       \/ /\ Upserting
          /\ documents[i].status # "DONE"
          /\ documents'[i].status = PipelineStart(documents[i].documentType)
       \/ /\ ~Upserting
          /\ Edge(documents[i].documentType, documents[i].status, documents'[i].status)
  /\ \A i \in (Len(documents) + 1)..Len(documents') :
       /\ Upserting
       /\ documents'[i].status = PipelineStart(documents'[i].documentType)

C20_LifecycleGraph == [][FollowsLifecycle]_vars

(***************************************************************************)
(* C21: an accepted re-upload into an existing record that is not DONE     *)
(* clears errorMessage, documentVerifyId, the verification payload and the *)
(* classification payload before any classify or submit call of the new    *)
(* attempt; whatever the row carries later in the attempt comes from this  *)
(* attempt.                                                                *)
(***************************************************************************)
ReUpload(r) ==
  /\ req[r].kind = "upload"
  /\ req[r].calls.write > 0
  /\ RowsBefore(r) # {}

Cleared(row) ==
  /\ row.errorMessage = None
  /\ row.documentVerifyId = None
  /\ row.verificationResult = None
  /\ row.classificationResult = None

NothingCalled(r) == req[r].calls.classify = 0 /\ req[r].calls.submit = 0

C21_ReUploadResets ==
  \A r \in Reqs : ReUpload(r) =>
    /\ RowBefore(r).status # "DONE"
    /\ Stored(r).id = RowBefore(r).id
    /\ NothingCalled(r) => Cleared(Stored(r))
    /\ Stored(r).classificationResult \in {None, req[r].classification}
    /\ Stored(r).documentVerifyId # None =>
         /\ Submitted(r)
         /\ Stored(r).documentVerifyId = Get(req[r].result).documentVerifyId
    /\ Stored(r).errorMessage \in
         {None, Some(UnableToClassifyMessage), Some(SubmitFailedMessage)}
           \cup (IF req[r].classification = None THEN {}
                 ELSE {RuleFailedData(req[r].docType, Get(req[r].classification)).errorMessage})

\* a re-upload over a row that carried an error message and a classification
C21_Witness ==
  \E r \in Reqs :
    /\ ReUpload(r)
    /\ NothingCalled(r)
    /\ RowBefore(r).errorMessage # None
    /\ RowBefore(r).classificationResult # None

\* a re-upload over a row that carried a verification id and a payload
C21_WitnessPolled ==
  \E r \in Reqs :
    /\ ReUpload(r)
    /\ NothingCalled(r)
    /\ RowBefore(r).documentVerifyId # None
    /\ RowBefore(r).verificationResult # None

(***************************************************************************)
(* C22: in every reachable state a row's errorMessage is set only if its   *)
(* status is FAILED or CLASSIFICATION_FAILED.                              *)
(***************************************************************************)
C22_ErrorOnlyInFailure ==
  \A i \in DocIds :
    documents[i].errorMessage # None =>
      documents[i].status \in {"FAILED", "CLASSIFICATION_FAILED"}

(***************************************************************************)
(* C23: in every reachable state a row whose status is DONE or FAILED has  *)
(* a verification payload, and a row in any other status has none.         *)
(***************************************************************************)
C23_PayloadIffFinal ==
  \A i \in DocIds :
    documents[i].status \in {"DONE", "FAILED"} <=> documents[i].verificationResult # None

(***************************************************************************)
(* C24: the result endpoint returns the full document for DONE, FAILED and *)
(* CLASSIFICATION_FAILED and answers 400 for CLASSIFYING, SUBMITTING and   *)
(* PROCESSING.                                                             *)
(***************************************************************************)
TerminalStates == {"DONE", "FAILED", "CLASSIFICATION_FAILED"}

C24_ResultIffTerminal ==
  \A r \in Reqs : (Done(r, "result") /\ SawBefore(r)) =>
    IF SeenBefore(r).status \in TerminalStates
    THEN /\ Response(r).code = 200
         /\ Response(r).body = [document |-> ResultSelect(SeenBefore(r))]
    ELSE /\ Response(r).code = 400
         /\ Response(r).error = InProgressError

(***************************************************************************)
(* C25: every submit call for an (owner, category) carries the reference   *)
(* 'doc-' followed by the id of that pair's row, across re-uploads and     *)
(* overlapping uploads, and two different documents never share one.       *)
(***************************************************************************)
MadeSubmit(r) == req[r].kind = "upload" /\ req[r].submitArgs # None

RefOf(r) == Get(req[r].submitArgs).externalRefId

C25_StableReference ==
  /\ \A r \in Reqs : MadeSubmit(r) =>
       \A i \in DocIds :
         RefOf(r) = "doc-" \o ToString(documents[i].id)
           <=> (documents[i].userId = req[r].userId /\ documents[i].documentType = req[r].docType)
  /\ \A p, q \in Reqs : (MadeSubmit(p) /\ MadeSubmit(q)) =>
       (RefOf(p) = RefOf(q)
          <=> (req[p].userId = req[q].userId /\ req[p].docType = req[q].docType))

\* two overlapping uploads of one document have both called submit
C25_Witness ==
  \E p, q \in Reqs :
    /\ SameDocument(p, q)
    /\ MadeSubmit(p) /\ MadeSubmit(q)
    /\ req[p].calls.submit > 0 /\ req[q].calls.submit > 0

\* uploads of two different documents have both called submit
C25_WitnessTwoDocuments ==
  \E p, q \in Reqs :
    /\ MadeSubmit(p) /\ MadeSubmit(q)
    /\ req[p].documentId # req[q].documentId

(***************************************************************************)
(* C28: at no point during a RESUME upload is the stored status of its row *)
(* FAILED.                                                                 *)
(***************************************************************************)
C28_ResumeNeverFailed ==
  \A r \in Reqs : (ResumeUpload(r) /\ req[r].calls.write > 0) =>
    Stored(r).status # "FAILED"

(***************************************************************************)
(* C29: after the classify step of a PASSPORT or DRIVERS_LICENCE upload    *)
(* the row carries the classification payload whatever the outcome.        *)
(* C29_PayloadAfterClassify is the statement as claimed; the amended       *)
(* statement C29_PayloadWhenClassified covers the uploads whose classify   *)
(* call returned a result, and says that an upload whose classify call     *)
(* failed ends CLASSIFICATION_FAILED with no payload.                      *)
(***************************************************************************)
AfterClassify(r) ==
  /\ IdUpload(r)
  /\ req[r].calls.classify > 0
  /\ req[r].pc \notin {"storeClassification", "classifyCatch"}

C29_PayloadAfterClassify ==
  \A r \in Reqs : AfterClassify(r) => Stored(r).classificationResult # None

Classified_(r) == AfterClassify(r) /\ req[r].classification # None

C29_PayloadWhenClassified ==
  \A r \in Reqs :
    /\ Classified_(r) =>
         /\ Stored(r).classificationResult = req[r].classification
         /\ req[r].pc = "done" =>
              Stored(r).status \in {"PROCESSING", "CLASSIFICATION_FAILED"}
    /\ (ClassifyFailed(r) /\ req[r].pc = "done") =>
         /\ Stored(r).status = "CLASSIFICATION_FAILED"
         /\ Stored(r).classificationResult = None

\* a classified upload that ended CLASSIFICATION_FAILED by the category rule
C29_Witness ==
  \E r \in Reqs :
    /\ Classified_(r)
    /\ req[r].pc = "done"
    /\ ~isValid(req[r].docType, Get(req[r].classification))
    /\ Stored(r).status = "CLASSIFICATION_FAILED"

\* a classified upload that went on to submission
C29_WitnessSubmitted ==
  \E r \in Reqs : Classified_(r) /\ req[r].pc = "done" /\ Stored(r).status = "PROCESSING"

(***************************************************************************)
(* C30: no step changes a row's id, owner or category or removes a row,    *)
(* and the upsert of a re-upload addresses the existing row of its (owner, *)
(* category) without adding one.                                           *)
(***************************************************************************)
IdentityKept ==
  /\ Len(documents') >= Len(documents)
  /\ \A i \in DocIds :
       /\ documents'[i].id = documents[i].id
       /\ documents'[i].userId = documents[i].userId
       /\ documents'[i].documentType = documents[i].documentType
  /\ \A r \in Reqs :
       (/\ req[r].pc = "upsert"
        /\ req'[r].pc # "upsert"
        /\ upsertTarget(documents, req[r].userId, req[r].docType) # {}) =>
         /\ Len(documents') = Len(documents)
         /\ req'[r].documentId \in upsertTarget(documents, req[r].userId, req[r].docType)
         /\ documents'[req'[r].documentId].id = req'[r].documentId

C30_IdentityImmutable == [][IdentityKept]_vars

\* a finished re-upload whose row kept its id and changed its status
C30_Witness ==
  \E r \in Reqs :
    /\ ReUpload(r)
    /\ req[r].pc = "done"
    /\ Stored(r).id = RowBefore(r).id
    /\ Stored(r).status # RowBefore(r).status

(***************************************************************************)
(* C26: the polling timer of the page is running exactly when the page's   *)
(* current document list holds a document in PROCESSING, CLASSIFYING or    *)
(* SUBMITTING; it is over the documents of that list, and at most one      *)
(* timer exists at any time.                                               *)
(***************************************************************************)
NonTerminal == {"PROCESSING", "CLASSIFYING", "SUBMITTING"}

Pending(docs) == SelectSeq(docs, LAMBDA d : d.status \in NonTerminal)

C26_TimerIffPending ==
  /\ Len(client.intervals) <= 1
  /\ client.intervals # <<>> <=> Pending(client.documents) # <<>>
  /\ \A k \in DOMAIN client.intervals : client.intervals[k] = Pending(client.documents)

\* a tick has seen a change, the list was fetched again and shows no pending
\* document: the timer is gone
C26_Witness ==
  /\ client.tick[1].pc = "ended"
  /\ client.tick[1].refreshed
  /\ client.documents # <<>>
  /\ Pending(client.documents) = <<>>
  /\ client.intervals = <<>>

\* after an upload the list shows a document the upload handler is still
\* working on, and the timer is running
C26_WitnessStarted ==
  /\ Len(client.intervals) = 1
  /\ \E k \in DOMAIN client.documents :
       client.documents[k].status \in {"CLASSIFYING", "SUBMITTING"}

(***************************************************************************)
(* C27: a timer tick asks for the status of every document whose           *)
(* last-known status is PROCESSING, CLASSIFYING or SUBMITTING and of no    *)
(* other; a failed status request does not keep it from asking for the     *)
(* next; and it fetches the list again if and only if a status it was      *)
(* given differs from the last-known one.                                  *)
(***************************************************************************)
Ticking(t) == client.tick[t].pc \in {"loop", "await"}

C27_TickPollsPending ==
  \A c \in Callbacks :
    LET t == client.tick[c]
        n == Len(t.processingDocs)
        r == CallbackSlot(c)
    IN  /\ Ticking(c) =>
             /\ t.current
             /\ \A k \in 1..n : t.processingDocs[k].status \in NonTerminal
             /\ t.i \in 1..(n + 1)
             /\ Len(t.answers) = t.i - 1
             /\ Len(t.asked) = IF t.pc = "await" THEN t.i ELSE t.i - 1
             /\ \A k \in DOMAIN t.asked : t.asked[k] = t.processingDocs[k].id
             /\ t.hasUpdates <=>
                  \E k \in DOMAIN t.answers :
                    t.answers[k] \notin {"", t.processingDocs[k].status}
        /\ (req[r].kind = "status" /\ req[r].pc # "idle") =>
             /\ t.pc = "await"
             /\ req[r].userId = ClientUser
             /\ req[r].documentId = t.processingDocs[t.i].id
        /\ t.pc = "ended" =>
             /\ t.current
             /\ t.refreshed <=> t.changed

\* the first request of a tick over two documents failed and the second
\* document has been asked for
C27_Witness ==
  /\ Ticking(1)
  /\ Len(client.tick[1].processingDocs) = 2
  /\ Len(client.tick[1].asked) = 2
  /\ client.tick[1].answers[1] = ""

\* a tick that was given a different status and fetched the list again
C27_WitnessRefreshed == client.tick[1].pc = "ended" /\ client.tick[1].refreshed

\* a tick that was given no different status and did not
C27_WitnessQuiet ==
  /\ client.tick[1].pc = "ended"
  /\ ~client.tick[1].refreshed
  /\ client.fetches = 0

(***************************************************************************)
(* C31: a status request makes exactly one poll call when the document it  *)
(* reads is PROCESSING with a verify id, and no external call when it      *)
(* reads the document in any other state or does not find it; it never     *)
(* calls classify or submit.                                               *)
(***************************************************************************)
ReadAs(r, statuses) ==
  /\ req[r].document # None
  /\ Get(req[r].document).status \in statuses

ReadProcessing(r) ==
  /\ ReadAs(r, {"PROCESSING"})
  /\ Get(req[r].document).documentVerifyId # None

C31_PollOnlyWhenProcessing ==
  \A r \in Reqs : req[r].kind = "status" =>
    /\ req[r].calls.classify = 0
    /\ req[r].calls.submit = 0
    /\ req[r].calls.poll <= 1
    /\ req[r].calls.poll = 1 => ReadProcessing(r)
    /\ req[r].pc = "done" => (req[r].calls.poll = 1 <=> ReadProcessing(r))
    /\ (req[r].pc = "done" /\ req[r].document = None) =>
         /\ Response(r).code = 404
         /\ req[r].calls = NoCalls

\* a status request that polled once
C31_Witness ==
  \E r \in Reqs : Done(r, "status") /\ ReadProcessing(r) /\ req[r].calls.poll = 1

\* a status request that read the document while an upload was working on it
C31_WitnessInFlight ==
  \E r \in Reqs :
    /\ Done(r, "status")
    /\ ReadAs(r, {"CLASSIFYING", "SUBMITTING"})
    /\ req[r].calls = NoCalls

\* status requests of a document that has ended, and of one that is not there
C31_WitnessEnded ==
  \E r \in Reqs :
    /\ Done(r, "status")
    /\ ReadAs(r, {"CLASSIFICATION_FAILED", "FAILED", "DONE"})
    /\ req[r].calls = NoCalls

C31_WitnessMissing ==
  \E r \in Reqs : Done(r, "status") /\ req[r].document = None

(***************************************************************************)
(* C33: two status polls of one PROCESSING document that overlap (both     *)
(* read the row before either writes: runs of the interval callback that   *)
(* overlap, or a run still going after its timer was cancelled) leave the  *)
(* row as the two polls, with the answers they were given, leave it when   *)
(* one runs after the other; each writes at most once.                     *)
(***************************************************************************)
\* the row after a status request that finds `row` and whose poll, if it makes
\* one, is answered `result` (None: the poll fails)
AfterPoll(row, result) ==
  IF /\ row.status = "PROCESSING"
     /\ row.documentVerifyId # None
     /\ result # None
     /\ Get(result).status \in {"DONE", "FAILED"}
  THEN [row EXCEPT !.status = Get(result).status, !.verificationResult = result]
  ELSE row

OneAfterTheOther(row, first, second) == AfterPoll(AfterPoll(row, first), second)

\* p and q are status requests of one document that both read it PROCESSING and
\* have both been answered
OverlappingPolls(p, q) ==
  /\ p # q
  /\ Done(p, "status") /\ Done(q, "status")
  /\ req[p].documentId = req[q].documentId
  /\ ReadProcessing(p) /\ ReadProcessing(q)
  /\ req[p].calls.poll = 1 /\ req[q].calls.poll = 1

C33_OverlappingPollsAsSerial ==
  \A p, q \in Reqs : OverlappingPolls(p, q) =>
    LET row == Get(req[p].document)
    IN  /\ req[q].document = req[p].document
        /\ Stored(p) \in { OneAfterTheOther(row, req[p].result, req[q].result),
                           OneAfterTheOther(row, req[q].result, req[p].result) }
        /\ req[p].calls.write <= 1 /\ req[q].calls.write <= 1

\* both polls were answered with a final result and both wrote it
C33_Witness ==
  \E p, q \in Reqs :
    /\ OverlappingPolls(p, q)
    /\ req[p].calls.write = 1 /\ req[q].calls.write = 1
    /\ Get(req[p].result).status = "DONE"
    /\ Get(req[q].result).status = "FAILED"

\* one poll failed or was answered PROCESSING, the other wrote
C33_WitnessOneWrites ==
  \E p, q \in Reqs :
    /\ OverlappingPolls(p, q)
    /\ req[p].calls.write = 0 /\ req[q].calls.write = 1

\* a run of the callback is still asking after the timer has been cancelled
C33_WitnessCancelled ==
  /\ client.intervals = <<>>
  /\ client.documents # <<>>
  /\ \E t \in Callbacks : client.tick[t].pc = "await"

(***************************************************************************)
(* C32: with the timer firing for as long as it is live, a document the    *)
(* page shows as PROCESSING, whose poll calls keep being answered DONE or  *)
(* FAILED from some time on often enough, is eventually stored with that   *)
(* final state and its payload and shown so by the page, for good, and     *)
(* once that holds of every document the timer is cancelled for good.      *)
(* Until then polling goes on: a document shown and stored as PROCESSING   *)
(* is polled again, and a status request whose poll failed or was answered *)
(* PROCESSING reports the state it read, PROCESSING, which makes the run   *)
(* of the callback fetch nothing.                                          *)
(***************************************************************************)
Showing(d, statuses) ==
  \E k \in DOMAIN client.documents :
    /\ client.documents[k].id = d
    /\ client.documents[k].status \in statuses

Resolved(d) ==
  /\ documents[d].status \in {"DONE", "FAILED"}
  /\ documents[d].verificationResult # None
  /\ Get(documents[d].verificationResult).status = documents[d].status

Settled(d) == Resolved(d) /\ Showing(d, {documents[d].status})

\* the external service answers a poll for document d with DONE or FAILED
PolledFinal(d) ==
  \E r \in Reqs, status \in {"DONE", "FAILED"} :
    req[r].documentId = d /\ StatusPollOk(r, status)

ExternalResolves == \A d \in 1..2 : SF_vars(PolledFinal(d))

BeingPolled(d) ==
  \E r \in Reqs : req[r].kind = "status" /\ req[r].documentId = d /\ req[r].pc = "poll"

LastKnownReported ==
  \A r \in Reqs :
    (Done(r, "status") /\ req[r].calls.poll = 1 /\ req[r].calls.write = 0) =>
      /\ Response(r).code = 200
      /\ Response(r).body.status = "PROCESSING"
      /\ Response(r).body.status = Get(req[r].document).status
      /\ Response(r).body.hasResult = FALSE

C32_PollingResolves ==
  /\ ExternalResolves =>
       /\ \A d \in 1..2 : Showing(d, {"PROCESSING"}) ~> [](Settled(d))
       /\ (\E d \in 1..2 : Showing(d, {"PROCESSING"})) ~> [](client.intervals = <<>>)
  /\ \A d \in 1..2 :
       (Showing(d, {"PROCESSING"}) /\ documents[d].status = "PROCESSING")
         ~> (BeingPolled(d) \/ Resolved(d))
  /\ [](LastKnownReported)

\* both documents have got their final state, one of each kind, the page
\* shows them and the timer is gone
C32_Witness ==
  /\ \A d \in 1..2 : Settled(d)
  /\ Showing(1, {"DONE"}) /\ Showing(2, {"FAILED"})
  /\ client.intervals = <<>>

\* a run of the callback over both documents has ended with nothing to fetch
\* while the external service had no final answer
C32_WitnessDegraded ==
  /\ client.tick[1].pc = "ended"
  /\ ~client.tick[1].refreshed
  /\ \A d \in 1..2 : documents[d].status = "PROCESSING"
  /\ Len(client.intervals) = 1

(***************************************************************************)
(* C34: however a status poll and a re-upload of the same document         *)
(* interleave, a verification payload that a poll stored belongs to the    *)
(* verify id the row holds: a poll that read the row as PROCESSING does    *)
(* not write its final state and payload over a row that a re-upload has   *)
(* reset to CLASSIFYING or SUBMITTING in the meantime.                     *)
(***************************************************************************)
PayloadOfCurrentId(row) ==
  Polled(row) =>
    /\ row.status \in {"DONE", "FAILED"}
    /\ Get(row.verificationResult).documentVerifyId = row.documentVerifyId

C34_PollPayloadIsCurrent == \A i \in DocIds : PayloadOfCurrentId(documents[i])

(***************************************************************************)
(* C35: an upload that has passed validation is answered once, and when it *)
(* is answered its document is in PROCESSING, DONE, FAILED or              *)
(* CLASSIFICATION_FAILED, not in CLASSIFYING or SUBMITTING; and a document *)
(* is in CLASSIFYING or SUBMITTING only while an upload for it is in       *)
(* flight.                                                                 *)
(***************************************************************************)
Transient == {"CLASSIFYING", "SUBMITTING"}

\* the rows of the (owner, category) of upload r
RowsOf(docs, r) ==
  {docs[i] : i \in upsertTarget(docs, req[r].userId, req[r].docType)}

\* the step in which upload r, past validation, sends its response
Answers(r) ==
  /\ req[r].kind = "upload"
  /\ req[r].pc \notin {"idle", "done"}
  /\ req'[r].pc = "done"

SettledWhenAnswered ==
  \A r \in Reqs : Answers(r) =>
    /\ req[r].res = None
    /\ req'[r].res # None
    /\ RowsOf(documents', r) # {}
    /\ \A row \in RowsOf(documents', r) : row.status \notin Transient

UploadInFlightFor(row) ==
  \E r \in Reqs :
    /\ req[r].kind = "upload"
    /\ req[r].pc \notin {"idle", "done"}
    /\ req[r].userId = row.userId
    /\ req[r].docType = row.documentType

NoneLeftBehind ==
  \A i \in DocIds :
    documents[i].status \in Transient => UploadInFlightFor(documents[i])

C35_UploadEndsSettled == [][SettledWhenAnswered /\ NoneLeftBehind']_vars

(***************************************************************************)
(* C36: one upload request calls classify at most once and submit at most  *)
(* once; a PASSPORT or DRIVERS_LICENCE upload calls submit only after its  *)
(* classify call has returned a result; and the upload has stored          *)
(* CLASSIFYING when it is about to call classify and SUBMITTING when it is *)
(* about to call submit.                                                   *)
(***************************************************************************)
AboutToCall(r, what) == req[r].kind = "upload" /\ req[r].pc = what

C36_OneCallEachInOrder ==
  \A r \in Reqs : req[r].kind = "upload" =>
    /\ req[r].calls.classify <= 1
    /\ req[r].calls.submit <= 1
    /\ req[r].calls.poll = 0
    /\ (IsIdDocument(req[r].docType) /\ req[r].calls.submit = 1) =>
         /\ req[r].calls.classify = 1
         /\ req[r].classification # None
         /\ Stored(r).classificationResult = req[r].classification
    /\ ~IsIdDocument(req[r].docType) => req[r].calls.classify = 0
    /\ AboutToCall(r, "classify") =>
         /\ req[r].calls.classify = 0
         /\ req[r].calls.submit = 0
         /\ Stored(r).status = "CLASSIFYING"
    /\ AboutToCall(r, "submit") =>
         /\ req[r].calls.submit = 0
         /\ Stored(r).status = "SUBMITTING"
    /\ req[r].calls.classify = 1 => req[r].calls.write >= 1
    /\ req[r].calls.submit = 1 =>
         req[r].calls.write >= (IF IsIdDocument(req[r].docType) THEN 3 ELSE 2)

\* a passport upload that called classify and then submit, once each, and has
\* been answered
C36_Witness ==
  \E r \in Reqs :
    /\ Done(r, "upload")
    /\ req[r].docType = "PASSPORT"
    /\ req[r].calls.classify = 1
    /\ req[r].calls.submit = 1

\* an upload over an existing row is about to call classify
C36_WitnessReUpload ==
  \E r \in Reqs :
    /\ AboutToCall(r, "classify")
    /\ RowsBefore(r) # {}

\* uploads whose one call failed and was not made again
C36_WitnessNoRetry ==
  \E r \in Reqs :
    /\ Done(r, "upload")
    /\ SubmitFailed(r)
    /\ req[r].calls.submit = 1

(***************************************************************************)
(* C37: a status response with hasResult true reports DONE or FAILED, and  *)
(* the result request of the same owner for that document, with no write   *)
(* in between, is answered 200; with hasResult false (also for a document  *)
(* in CLASSIFICATION_FAILED) that result request is answered 400.          *)
(***************************************************************************)
StatusAnswered(r) == Done(r, "status") /\ Response(r).code = 200

\* what GET /:documentId/result answers to that owner on the table as it is
ResultCode(documentId, userId) ==
  LET found == findFirst(documentId, userId)
  IN  IF found = None THEN 404
      ELSE IF ~ResultReady(ResultSelect(Get(found))) THEN 400
      ELSE 200

C37_HasResultMeansResult ==
  /\ \A r \in Reqs : StatusAnswered(r) =>
       /\ Response(r).body.hasResult \in BOOLEAN
       /\ Response(r).body.hasResult <=> Response(r).body.status \in {"DONE", "FAILED"}
       /\ Response(r).body.status = Stored(r).status
       /\ Response(r).body.hasResult => ResultCode(req[r].documentId, req[r].userId) = 200
       /\ ~Response(r).body.hasResult => ResultCode(req[r].documentId, req[r].userId) = 400
  /\ \A r \in Reqs : (Done(r, "result") /\ SawBefore(r)) =>
       /\ StatusBody(SeenBefore(r)).hasResult => Response(r).code = 200
       /\ ~StatusBody(SeenBefore(r)).hasResult =>
            /\ Response(r).code = 400
            /\ Response(r).error = InProgressError

\* a status response with hasResult true that a poll has just produced
C37_Witness ==
  \E r \in Reqs :
    /\ StatusAnswered(r)
    /\ Response(r).body.hasResult
    /\ req[r].calls.write = 1

\* a status response for a document in CLASSIFICATION_FAILED
C37_WitnessNoResult ==
  \E r \in Reqs :
    /\ StatusAnswered(r)
    /\ Response(r).body.status = "CLASSIFICATION_FAILED"
    /\ ~Response(r).body.hasResult

\* the result request that follows a status response with hasResult true
C37_WitnessResult ==
  \E r \in Reqs :
    /\ Done(r, "result")
    /\ SawBefore(r)
    /\ SeenBefore(r).status = "FAILED"
    /\ Response(r).code = 200

====
